---- MODULE Spec2Model ----
(***************************************************************************)
(* Zendo scene generator: the placement engine of generate.py              *)
(* (generate_structure and its helpers) and the retry drivers around it    *)
(* (pipeline.generate_full_scene, render.generate_blender_examples,        *)
(* main.run_generation).                                                   *)
(*                                                                         *)
(* Geometry lives on an integer grid.  Every object is a box; its world    *)
(* AABB is its position plus/minus its half extents, which swap under a    *)
(* quarter turn about z.  random.uniform is a nondeterministic choice:     *)
(* over the points of the sampling disc that lie on a lattice of step      *)
(* GridStep (positions), and over no turn or a quarter turn (angles).      *)
(***************************************************************************)
EXTENDS Integers, Sequences, FiniteSets, TLC

VARIABLES
    args,              \* the configuration namespace (yaml)
    items,             \* the facts handed to generate_structure
    pc,                \* position inside generate_structure
    exc,               \* the exception generate_structure raised, or "none"
    grounded_objects,  \* grounded instructions still to place
    related_objects,   \* relational instructions still to place
    instances,         \* ZendoObject.instances, in registration order
    current_object,    \* handle (index in instances) of the object being placed
    relation,          \* (relation_type, target) of the instruction being resolved
    tries,             \* iterations of the running `while True` loop, saturating
    scene,             \* generate_full_scene, one record per scene index (worker)
    mainst,            \* main.main / run_generation, and the output directory
    rend,              \* render.generate_blender_examples
    rmain,             \* render.main
    call               \* a helper function called on its own: input and result

svars == <<args, items, pc, exc, grounded_objects, related_objects,
           instances, current_object, relation, tries>>

dvars == <<scene, mainst, rend>>

xvars == <<rmain, call>>

vars == <<svars, dvars, xvars>>

(***************************************************************************)
(* Bounds of the model.                                                    *)
(***************************************************************************)
MaxId == 2
MaxRadius == 4
MaxTries == 1
MaxAttempts == 2
MaxScenes == 2
MaxExamples == 2
GridStep == 2

(***************************************************************************)
(* Values.                                                                 *)
(***************************************************************************)
None == 0                  \* Python's None where a handle is expected

anchor_position == <<0, 0, 0>>

Ids == 0 .. MaxId

Digits == 0 .. 9

Relations == {"touching", "pointing", "on_top_of"}

Grounded == [name |-> "grounded", arg |-> <<>>]

\* on_top_of never reads its target, so one target stands for all.
Actions ==
    {Grounded}
    \cup {[name |-> r, arg |-> <<t>>] : r \in {"touching", "pointing"}, t \in Ids}
    \cup {[name |-> "on_top_of", arg |-> <<0>>]}

ShapeOf(id) == <<"block", "wedge", "pyramid">>[(id % 3) + 1]

\* The text "item(<id>, blue, <shape>, north, <action>)".
Fact(id, action) ==
    [head |-> "item", id |-> id, color |-> "blue", shape |-> ShapeOf(id),
     orientation |-> "north", action |-> action]

\* The fact lists of the model: one fact per id of a non-empty id set, in
\* descending id order (so that sorting has work to do), each with any action.
RECURSIVE Ascending(_, _)
Ascending(S, act) ==
    IF S = {} THEN <<>>
    ELSE LET m == CHOOSE x \in S : \A y \in S : x <= y
         IN  <<Fact(m, act[m])>> \o Ascending(S \ {m}, act)

Reverse(s) == [k \in 1 .. Len(s) |-> s[Len(s) + 1 - k]]

FactLists ==
    UNION { {Reverse(Ascending(S, act)) : act \in [S -> Actions]}
            : S \in (SUBSET Ids) \ {{}} }

Radii == {MaxRadius - 2, MaxRadius}

\* The configurations of the model: every radius and face policy without
\* random rotation, and one configuration with it.
Configs ==
    [placement_radius : Radii,
     random_face_choice : BOOLEAN,
     random_object_rotation : {FALSE}]
    \cup [placement_radius : {MaxRadius},
          random_face_choice : {TRUE},
          random_object_rotation : {TRUE}]

(***************************************************************************)
(* Geometry collaborator (zendo_objects, structure): hulls, faces, moves.  *)
(***************************************************************************)
FaceOrder == <<"right", "left", "back", "front">>

Faces == {FaceOrder[k] : k \in 1 .. Len(FaceOrder)}

face_map ==
    [f \in Faces |->
        CASE f = "right" -> <<"x", 1>>
          [] f = "left"  -> <<"x", -1>>
          [] f = "back"  -> <<"y", 1>>
          [] f = "front" -> <<"y", -1>>]

Hull(shape) == IF shape = "wedge" THEN <<2, 1>> ELSE <<1, 1>>

ObjectHeight == 2

Half(o) ==
    IF o.rot % 2 = 0 THEN Hull(o.shape) ELSE <<Hull(o.shape)[2], Hull(o.shape)[1]>>

bb_min(o) == <<o.pos[1] - Half(o)[1], o.pos[2] - Half(o)[2], o.pos[3]>>

bb_max(o) == <<o.pos[1] + Half(o)[1], o.pos[2] + Half(o)[2], o.pos[3] + ObjectHeight>>

NoNeighbours == [f \in Faces |-> None]

\* zendo_objects.Block / Wedge / Pyramid: a new object at the origin.
NewObject(instruction) ==
    [id |-> instruction.id, shape |-> instruction.shape, pos |-> <<0, 0, 0>>,
     rot |-> 0, touching |-> NoNeighbours]

rotate_z(o, turns) == [o EXCEPT !.rot = (o.rot + turns) % 4]

move(o, p) == [o EXCEPT !.pos = p]

set_touching(o, face, other) == [o EXCEPT !.touching[face] = other]

\* ZendoObject.get_free_face: the faces holding no neighbour, in face order.
free_faces(o) == SelectSeq(FaceOrder, LAMBDA f : o.touching[f] = None)

\* zendo_objects.get_object: the handle of the first registered object with
\* this id, None when there is none.
get_object(reg, id) ==
    IF \E h \in 1 .. Len(reg) : reg[h].id = id
    THEN CHOOSE h \in 1 .. Len(reg) :
            /\ reg[h].id = id
            /\ \A g \in 1 .. Len(reg) : reg[g].id = id => h <= g
    ELSE None

\* structure.touching: the position flush against `face` of the target.
FlushPosition(o, t, face) ==
    LET axis == face_map[face][1]
        dir  == face_map[face][2]
    IN  IF axis = "x"
        THEN <<t.pos[1] + dir * (Half(t)[1] + Half(o)[1]), t.pos[2], t.pos[3]>>
        ELSE <<t.pos[1], t.pos[2] + dir * (Half(t)[2] + Half(o)[2]), t.pos[3]>>

Abs(n) == IF n < 0 THEN -n ELSE n

\* structure.pointing: the quarter turn that faces the target.
Heading(o, t) ==
    LET dx == t.pos[1] - o.pos[1]
        dy == t.pos[2] - o.pos[2]
    IN  IF Abs(dx) >= Abs(dy)
        THEN (IF dx >= 0 THEN 0 ELSE 2)
        ELSE (IF dy >= 0 THEN 1 ELSE 3)

pointing(o, t) == [o EXCEPT !.rot = Heading(o, t)]

\* Does the segment from p to q meet the footprint of the box b?  (The
\* separating-axis test, with every length doubled to stay in the integers.)
SegmentMeetsBox(p, q, b) ==
    LET dx == q[1] - p[1]
        dy == q[2] - p[2]
        mx == p[1] + q[1] - 2 * b.pos[1]
        my == p[2] + q[2] - 2 * b.pos[2]
        hx == 2 * Half(b)[1]
        hy == 2 * Half(b)[2]
    IN  /\ Abs(mx) <= Abs(dx) + hx
        /\ Abs(my) <= Abs(dy) + hy
        /\ Abs(mx * dy - my * dx) <= hx * Abs(dy) + hy * Abs(dx)

\* How far a ray is followed, in multiples of the way to what it aims at.
RayReach == 4

Dist2(p, q) == (q[1] - p[1]) * (q[1] - p[1]) + (q[2] - p[2]) * (q[2] - p[2])

\* The handles of S in the order of their distance from p (nearest first,
\* the lower handle first among equals).
RECURSIVE ByDistance(_, _, _)
ByDistance(reg, p, S) ==
    IF S = {} THEN <<>>
    ELSE LET n == CHOOSE g \in S : \A k \in S :
                    \/ Dist2(p, reg[g].pos) < Dist2(p, reg[k].pos)
                    \/ (Dist2(p, reg[g].pos) = Dist2(p, reg[k].pos) /\ g <= k)
         IN  <<n>> \o ByDistance(reg, p, S \ {n})

\* scene.ray_cast marched along the ray of the object o that was pointed at
\* the object t: the objects the ray meets, nearest first.  A ray without a
\* direction (o aimed at itself) meets nothing.
RayHits(reg, o, t) ==
    LET p == reg[o].pos
        q == reg[t].pos
        far == <<p[1] + RayReach * (q[1] - p[1]), p[2] + RayReach * (q[2] - p[2])>>
    IN  IF p = q THEN <<>>
        ELSE ByDistance(reg, p,
                {g \in (1 .. Len(reg)) \ {o} : SegmentMeetsBox(p, far, reg[g])})

(***************************************************************************)
(* generate.py                                                             *)
(***************************************************************************)
\* One ray of check_pointing (lines 22-42): every hit that resolves to a
\* tracked object (not None), is not yet in results and is not the observer
\* is appended.
RECURSIVE MarchRay(_, _, _)
MarchRay(results, hits, observer) ==
    IF hits = <<>> THEN results
    ELSE LET zendo_obj == Head(hits)
             seen == \E k \in 1 .. Len(results) : results[k] = zendo_obj
         IN  MarchRay(IF zendo_obj # None /\ ~seen /\ zendo_obj # observer
                      THEN Append(results, zendo_obj)
                      ELSE results,
                      Tail(hits), observer)

\* check_pointing without the test `zendo_obj not in results`.
RECURSIVE check_pointing_no_memory(_, _)
check_pointing_no_memory(rays, observer) ==
    IF rays = <<>> THEN <<>>
    ELSE check_pointing_no_memory(SubSeq(rays, 1, Len(rays) - 1), observer)
            \o SelectSeq(rays[Len(rays)], LAMBDA z : z # None /\ z # observer)

\* check_pointing(observer), given what each ray of the observer hits.
RECURSIVE check_pointing(_, _)
check_pointing(rays, observer) ==
    IF rays = <<>> THEN <<>>
    ELSE MarchRay(check_pointing(SubSeq(rays, 1, Len(rays) - 1), observer),
                  rays[Len(rays)], observer)

\* An AABB test that compares only one bound per axis.
Overlap_one_sided(a, b) ==
    /\ bb_min(a)[1] <= bb_max(b)[1]
    /\ bb_min(a)[2] <= bb_max(b)[2]
    /\ bb_min(a)[3] <= bb_max(b)[3]

\* check_collision's test of two world AABBs: inclusive on all three axes.
Overlap(a, b) ==
    /\ bb_min(a)[1] <= bb_max(b)[1] /\ bb_max(a)[1] >= bb_min(b)[1]
    /\ bb_min(a)[2] <= bb_max(b)[2] /\ bb_max(a)[2] >= bb_min(b)[2]
    /\ bb_min(a)[3] <= bb_max(b)[3] /\ bb_max(a)[3] >= bb_min(b)[3]

Handles(reg) == 1 .. Len(reg)

HandleSeq(reg) == [h \in 1 .. Len(reg) |-> h]

\* A check_collision whose comparisons are strict, so that boxes sharing
\* only a face pass for apart.
check_collision_strict(reg, h, omit) ==
    SelectSeq(HandleSeq(reg),
              LAMBDA g : /\ g # h /\ g # omit
                         /\ bb_min(reg[h])[1] < bb_max(reg[g])[1]
                         /\ bb_max(reg[h])[1] > bb_min(reg[g])[1]
                         /\ bb_min(reg[h])[2] < bb_max(reg[g])[2]
                         /\ bb_max(reg[h])[2] > bb_min(reg[g])[2]
                         /\ bb_min(reg[h])[3] < bb_max(reg[g])[3]
                         /\ bb_max(reg[h])[3] > bb_min(reg[g])[3])

\* A check_collision that does not skip the omitted object.
check_collision_keeps_omit(reg, h, omit) ==
    SelectSeq(HandleSeq(reg),
              LAMBDA g : g # h /\ Overlap(reg[h], reg[g]))

\* check_collision(zendo_object, omit) over the registry `reg`.
check_collision(reg, h, omit) ==
    SelectSeq(HandleSeq(reg),
              LAMBDA g : g # h /\ g # omit /\ Overlap(reg[h], reg[g]))

\* get_random_position: the lattice points of the disc around the anchor.
Disc(radius) ==
    {<<anchor_position[1] + q[1], anchor_position[2] + q[2], anchor_position[3]>> :
        q \in {q \in (-radius .. radius) \X (-radius .. radius) :
                /\ q[1] % GridStep = 0
                /\ q[2] % GridStep = 0
                /\ q[1] * q[1] + q[2] * q[2] <= radius * radius}}

\* sorted(..., key=id): a stable insertion sort.
RECURSIVE InsertById(_, _)
InsertById(i, s) ==
    IF s = <<>> THEN <<i>>
    ELSE IF i.id < Head(s).id THEN <<i>> \o s
    ELSE <<Head(s)>> \o InsertById(i, Tail(s))

RECURSIVE SortById(_)
SortById(s) ==
    IF s = <<>> THEN <<>>
    ELSE InsertById(s[Len(s)], SortById(SubSeq(s, 1, Len(s) - 1)))

\* get_grounded without its sort.
get_grounded_unsorted(instructions) ==
    SelectSeq(instructions, LAMBDA i : i.action = Grounded)

get_grounded(instructions) ==
    SortById(SelectSeq(instructions, LAMBDA i : i.action = Grounded))

\* get_relations without its sort.
get_relations_unsorted(instructions) ==
    SelectSeq(instructions, LAMBDA i : i.action # Grounded)

get_relations(instructions) ==
    SortById(SelectSeq(instructions, LAMBDA i : i.action # Grounded))

\* re.match(r"item\((\d+),\s*(\w+),\s*(\w+),\s*(\w+),\s*(.+)\)", item):
\* the text starts as an item does; the action group takes any text.
Matches(fact) == fact.head = "item"

\* The instructions generate_structure parses out of the facts: one per
\* fact the pattern matches, made of the five groups.
ParseItems(facts) ==
    LET matched == SelectSeq(facts, Matches)
    IN  [k \in 1 .. Len(matched) |->
            [id |-> matched[k].id, color |-> matched[k].color,
             shape |-> matched[k].shape, orientation |-> matched[k].orientation,
             action |-> matched[k].action]]

\* generate_relation: the relation type and the target named by the first
\* character after the parenthesis.
generate_relation(reg, instruction) ==
    [type |-> instruction.action.name,
     target |-> get_object(reg, instruction.action.arg[1])]

\* The face of face_map with the same axis and the negated direction
\* (line 216): the first key holding that value.
OppositeFace(face) ==
    LET want == <<face_map[face][1], face_map[face][2] * (-1)>>
        k == CHOOSE i \in 1 .. Len(FaceOrder) :
                /\ face_map[FaceOrder[i]] = want
                /\ \A j \in 1 .. Len(FaceOrder) : face_map[FaceOrder[j]] = want => i <= j
    IN  FaceOrder[k]

\* The adjacency recorded under the same face on both objects.
RecordTouching_same_face(reg, cur, tgt, face) ==
    LET r1 == [reg EXCEPT ![tgt] = set_touching(@, face, cur)]
    IN  [r1 EXCEPT ![cur] = set_touching(@, face, tgt)]

\* The target's side of the adjacency always recorded under its first face.
RecordTouching_first_face(reg, cur, tgt, face) ==
    LET r1 == [reg EXCEPT ![tgt] = set_touching(@, FaceOrder[1], cur)]
    IN  [r1 EXCEPT ![cur] = set_touching(@, OppositeFace(face), tgt)]

\* Lines 214-217: the adjacency recorded on the target, then on the new object.
RecordTouching(reg, cur, tgt, face) ==
    LET r1 == [reg EXCEPT ![tgt] = set_touching(@, face, cur)]
    IN  [r1 EXCEPT ![cur] = set_touching(@, OppositeFace(face), tgt)]

\* The angles random.uniform(0, 360) may give generate_creation.
Turns == IF args.random_object_rotation THEN {0, 1} ELSE {0}

generate_creation(instruction, turn) == rotate_z(NewObject(instruction), turn)

Raise(e) ==
    /\ pc' = "raised"
    /\ exc' = e

Bump == IF tries < MaxTries THEN tries + 1 ELSE tries

\* items -> instructions -> the two sorted lists (lines 148-168).
Parse ==
    /\ pc = "parse"
    /\ grounded_objects' = get_grounded(ParseItems(items))
    /\ related_objects' = get_relations(ParseItems(items))
    /\ pc' = "anchor"
    /\ UNCHANGED <<args, items, exc, instances, current_object, relation, tries>>
    /\ UNCHANGED <<dvars, xvars>>

\* The anchor: created, moved to the anchor position, taken off the list
\* (lines 171-176).
PlaceAnchor ==
    /\ pc = "anchor"
    /\ IF grounded_objects = <<>>
       THEN /\ Raise("IndexError")
            /\ UNCHANGED <<grounded_objects, instances, current_object>>
       ELSE \E turn \in Turns :
            /\ instances' = Append(instances,
                    move(generate_creation(grounded_objects[1], turn), anchor_position))
            /\ current_object' = Len(instances) + 1
            /\ grounded_objects' = Tail(grounded_objects)
            /\ pc' = "scatter"
            /\ exc' = exc
    /\ UNCHANGED <<args, items, related_objects, relation, tries>>
    /\ UNCHANGED <<dvars, xvars>>

\* The head of the grounded loop: the next object is created and turned by
\* 90 degrees (lines 179-181).
ScatterCreate ==
    /\ pc = "scatter"
    /\ IF grounded_objects = <<>>
       THEN /\ pc' = "relation"
            /\ UNCHANGED <<instances, current_object>>
       ELSE \E turn \in Turns :
            /\ instances' = Append(instances,
                    rotate_z(generate_creation(grounded_objects[1], turn), 1))
            /\ current_object' = Len(instances) + 1
            /\ pc' = "sample"
    /\ tries' = 0
    /\ UNCHANGED <<args, items, exc, grounded_objects, related_objects, relation>>
    /\ UNCHANGED <<dvars, xvars>>

\* One iteration of the sampling loop (lines 182-191).
ScatterSample ==
    /\ pc = "sample"
    /\ \E pos \in Disc(args.placement_radius) :
        LET reg == [instances EXCEPT ![current_object] = move(@, pos)]
        IN  /\ instances' = reg
            /\ IF check_collision(reg, current_object, None) = <<>>
               THEN /\ pc' = "scatter"
                    /\ grounded_objects' = Tail(grounded_objects)
                    /\ tries' = 0
               ELSE /\ pc' = "sample"
                    /\ grounded_objects' = grounded_objects
                    /\ tries' = Bump
    /\ UNCHANGED <<args, items, exc, related_objects, current_object, relation>>
    /\ UNCHANGED <<dvars, xvars>>

\* The head of the relational loop: the object is created and its relation
\* read (lines 195-198).
RelationCreate ==
    /\ pc = "relation"
    /\ IF related_objects = <<>>
       THEN /\ pc' = "post"
            /\ UNCHANGED <<instances, current_object, relation, exc>>
       ELSE \E turn \in Turns :
            LET instruction == related_objects[1]
                reg == Append(instances, generate_creation(instruction, turn))
            IN  /\ instances' = reg
                /\ current_object' = Len(reg)
                /\ IF instruction.action.arg = <<>>
                   THEN /\ Raise("IndexError")
                        /\ relation' = relation
                   ELSE /\ relation' = generate_relation(reg, instruction)
                        /\ pc' = "resolve"
                        /\ exc' = exc
    /\ tries' = 0
    /\ UNCHANGED <<args, items, grounded_objects, related_objects>>
    /\ UNCHANGED <<dvars, xvars>>

\* One iteration of the loop for a touching relation (lines 201-220).
ResolveTouching ==
    /\ pc = "resolve"
    /\ relation.type = "touching"
    /\ IF relation.target = None
       THEN /\ Raise("AttributeError")
            /\ UNCHANGED <<instances, related_objects, tries>>
       ELSE LET faces == free_faces(instances[relation.target])
            IN  IF faces = <<>>
                THEN /\ Raise("IndexError")
                     /\ UNCHANGED <<instances, related_objects, tries>>
                ELSE \E k \in 1 .. Len(faces) :
                     /\ args.random_face_choice \/ k = 1
                     /\ LET face == faces[k]
                            turned == [instances EXCEPT ![current_object] = rotate_z(@, 1)]
                            reg == [turned EXCEPT ![current_object] =
                                        move(@, FlushPosition(turned[current_object],
                                                              turned[relation.target], face))]
                        IN  IF check_collision(reg, current_object, relation.target) = <<>>
                            THEN /\ instances' =
                                        RecordTouching(reg, current_object, relation.target, face)
                                 /\ related_objects' = Tail(related_objects)
                                 /\ pc' = "relation"
                                 /\ tries' = 0
                                 /\ exc' = exc
                            ELSE /\ instances' = reg
                                 /\ related_objects' = related_objects
                                 /\ pc' = "resolve"
                                 /\ tries' = Bump
                                 /\ exc' = exc
    /\ UNCHANGED <<args, items, grounded_objects, current_object, relation>>
    /\ UNCHANGED <<dvars, xvars>>

\* One iteration of the loop for a pointing relation (lines 222-230).
ResolvePointing ==
    /\ pc = "resolve"
    /\ relation.type = "pointing"
    /\ \E pos \in Disc(args.placement_radius) :
        LET moved == [instances EXCEPT ![current_object] = move(@, pos)]
        IN  IF relation.target = None
            THEN /\ instances' = moved
                 /\ Raise("AttributeError")
                 /\ UNCHANGED <<related_objects, tries>>
            ELSE LET reg == [moved EXCEPT ![current_object] =
                                pointing(@, moved[relation.target])]
                 IN  /\ instances' = reg
                     /\ exc' = exc
                     /\ IF check_collision(reg, current_object, None) = <<>>
                        THEN /\ related_objects' = Tail(related_objects)
                             /\ pc' = "relation"
                             /\ tries' = 0
                        ELSE /\ related_objects' = related_objects
                             /\ pc' = "resolve"
                             /\ tries' = Bump
    /\ UNCHANGED <<args, items, grounded_objects, current_object, relation>>
    /\ UNCHANGED <<dvars, xvars>>

\* One iteration of the loop for an on_top_of relation (lines 232-233): the
\* branch prints and the loop goes round again.
ResolveOnTopOf ==
    /\ pc = "resolve"
    /\ relation.type = "on_top_of"
    /\ pc' = "resolve"
    /\ tries' = Bump
    /\ UNCHANGED <<args, items, exc, grounded_objects, related_objects, instances,
                   current_object, relation>>
    /\ UNCHANGED <<dvars, xvars>>

\* One iteration of the relational loop for a relation type that is none
\* of the three (lines 200-233): no branch is taken and the loop goes round
\* again.
ResolveUnknown ==
    /\ pc = "resolve"
    /\ relation.type \notin Relations
    /\ pc' = "resolve"
    /\ tries' = Bump
    /\ UNCHANGED <<args, items, exc, grounded_objects, related_objects, instances,
                   current_object, relation>>
    /\ UNCHANGED <<dvars, xvars>>

\* The post-pass over the registry (lines 236-241): it prints what every
\* object points at and changes nothing.
PostPass ==
    /\ pc = "post"
    /\ pc' = "done"
    /\ UNCHANGED <<args, items, exc, grounded_objects, related_objects, instances,
                   current_object, relation, tries>>
    /\ UNCHANGED <<dvars, xvars>>

(***************************************************************************)
(* The drivers' states when they are not running.                          *)
(***************************************************************************)
IdleMain ==
    [pc |-> "idle", results |-> <<>>, dir_exists |-> FALSE, files |-> {},
     actual |-> {}, tick |-> 0, saved |-> <<>>, queue |-> <<>>,
     rendered |-> <<>>, rows |-> <<>>]

IdleRender ==
    [pc |-> "idle", num_examples |-> 0, scenes |-> <<>>, i |-> 0, j |-> 0,
     outcomes |-> <<>>, cleanup |-> {}, result |-> "none", exc |-> "none",
     worker |-> "none"]

\* csv holds the rows of ground_truth.csv below its header; finalized counts
\* the scenes written to it.
IdleRenderMain ==
    [pc |-> "idle", r |-> 0, failed_attempts |-> 0, negative |-> FALSE,
     csv |-> <<>>, finalized |-> 0]

IdleCall == [fn |-> "none"]

(***************************************************************************)
(* generate_structure(args, prolog_string), called on its own.             *)
(***************************************************************************)
Init ==
    /\ args \in Configs
    /\ items \in FactLists
    /\ pc = "parse"
    /\ exc = "none"
    /\ grounded_objects = <<>>
    /\ related_objects = <<>>
    /\ instances = <<>>
    /\ current_object = None
    /\ relation = [type |-> "none", target |-> None]
    /\ tries = 0
    /\ scene = <<>>
    /\ mainst = IdleMain
    /\ rend = IdleRender
    /\ rmain = IdleRenderMain
    /\ call = IdleCall

Next ==
    \/ Parse
    \/ PlaceAnchor
    \/ ScatterCreate
    \/ ScatterSample
    \/ RelationCreate
    \/ ResolveTouching
    \/ ResolvePointing
    \/ ResolveOnTopOf
    \/ PostPass

Spec == Init /\ [][Next]_vars

(***************************************************************************)
(* The callers of generate_structure.                                      *)
(***************************************************************************)
generate_structure_params == 2   \* def generate_structure(args, prolog_string)

\* A call that passes as many arguments as the function has parameters.
call_arguments_fitting == generate_structure_params

call_arguments == 3              \* generate_structure(args, structure, collection)

\* What the call in the callers' try block can do: it enters the function
\* only when the arguments fit its parameters, and the function then returns
\* or raises; otherwise the call itself raises TypeError.
TryOutcomes ==
    IF call_arguments = generate_structure_params
    THEN {"returned", "raised"}
    ELSE {"TypeError"}

\* The registry a call that returned leaves behind: one object per fact.
BuiltRegistry(structure) == [k \in 1 .. Len(structure) |-> NewObject(structure[k])]

\* The structures the logic engine hands out.
Structures ==
    {<<Fact(0, Grounded)>>,
     <<Fact(1, [name |-> "touching", arg |-> <<0>>]), Fact(0, Grounded)>>}

\* generate_prolog_structure(n, query, file): n structures, or nothing.
EngineResults(n) == {<<>>} \cup [1 .. n -> Structures]

\* An invocation of the logic engine: the query returns a value, or it does
\* not return.
EngineCalls(n) ==
    {[returns |-> FALSE, value |-> <<>>]}
        \cup {[returns |-> TRUE, value |-> v] : v \in EngineResults(n)}

DriverConfigs ==
    [placement_radius : {MaxRadius},
     random_face_choice : {FALSE},
     random_object_rotation : {FALSE},
     resolve_attempts : 0 .. MaxAttempts,
     num_rules : 1 .. MaxScenes,
     num_examples : 0 .. MaxExamples,
     generate_invalid_examples : BOOLEAN,
     num_invalid_examples : 0 .. MaxExamples]

\* The configurations without examples that break the rule.
ValidOnly ==
    {c \in DriverConfigs : ~c.generate_invalid_examples /\ c.num_invalid_examples = 0}

Last(s) == s[Len(s)]

(***************************************************************************)
(* pipeline.generate_full_scene(args, scene_index)                         *)
(***************************************************************************)
StartScene ==
    [pc |-> "start", attempt |-> 0, structure |-> <<>>, collection |-> FALSE,
     outcomes |-> <<>>, cleanup |-> {}, result |-> "none", exc |-> "none"]

\* for attempt in range(args.resolve_attempts): one more attempt is due.
AttemptsLeft_one_more(attempt) == attempt <= args.resolve_attempts

AttemptsLeft(attempt) == attempt < args.resolve_attempts

\* Line 16: the base scene is loaded.
PipelineOpen(i) ==
    /\ mainst.pc = "pool"
    /\ scene[i].pc = "start"
    /\ scene' = [scene EXCEPT ![i].pc = "loop"]
    /\ UNCHANGED <<xvars, svars, mainst, rend>>

\* Lines 18-32 and 67-69: the head of an attempt.  No attempt left: the
\* function returns False.  Otherwise a rule and a structure are generated
\* (the engine is called directly: a query that does not return blocks the
\* worker); without a structure the attempt is over, with one a collection
\* is linked.
PipelineAttempt(i) ==
    /\ scene[i].pc = "loop"
    /\ IF ~AttemptsLeft(scene[i].attempt)
       THEN scene' = [scene EXCEPT ![i].pc = "returned", ![i].result = "False"]
       ELSE \E query \in EngineCalls(1) :
            IF ~query.returns
            THEN scene' = [scene EXCEPT ![i].pc = "blocked"]
            ELSE IF query.value = <<>>
            THEN scene' = [scene EXCEPT
                    ![i].outcomes = Append(@, "no_structure"),
                    ![i].attempt = @ + 1]
            ELSE scene' = [scene EXCEPT
                    ![i].structure = query.value[1],
                    ![i].collection = TRUE,
                    ![i].cleanup = {},
                    ![i].pc = "try"]
    /\ UNCHANGED <<xvars, svars, mainst, rend>>

\* Lines 35-65: the try block and its handler.  A call that returns is
\* followed by the save of scene_<i>.blend and its json, and by return True;
\* an exception is followed by the removal of the collection's objects and
\* of the collection, by ZendoObject.instances.clear() and by the next
\* attempt.
PipelineTry(i) ==
    /\ scene[i].pc = "try"
    /\ \E outcome \in TryOutcomes :
        IF outcome = "returned"
        THEN /\ instances' = BuiltRegistry(scene[i].structure)
             /\ mainst' = [mainst EXCEPT
                    !.dir_exists = TRUE,
                    !.files = @ \cup {i},
                    !.saved = (i :> Len(scene[i].structure)) @@ mainst.saved]
             /\ scene' = [scene EXCEPT
                    ![i].outcomes = Append(@, "success"),
                    ![i].pc = "returned",
                    ![i].result = "True"]
        ELSE /\ instances' = <<>>
             /\ mainst' = mainst
             /\ scene' = [scene EXCEPT
                    ![i].outcomes = Append(@, "exception"),
                    ![i].collection = FALSE,
                    ![i].cleanup = {"objects_removed", "collection_removed",
                                    "instances_cleared"},
                    ![i].exc = outcome,
                    ![i].attempt = @ + 1,
                    ![i].pc = "loop"]
    /\ UNCHANGED <<xvars, args, items, pc, exc, grounded_objects, related_objects,
                   current_object, relation, tries, rend>>

(***************************************************************************)
(* main.run_generation and main.main                                       *)
(***************************************************************************)
SceneIndexes == 0 .. (args.num_rules - 1)

\* expected_blend_files, as scene indexes.
Expected == SceneIndexes

\* Lines 17-24: the pool is created and one job per scene index submitted.
RunGeneration ==
    /\ mainst.pc = "start"
    /\ mainst' = [mainst EXCEPT !.pc = "pool"]
    /\ scene' = [i \in SceneIndexes |-> StartScene]
    /\ UNCHANGED <<xvars, svars, rend>>

\* Lines 24-29: starmap returns once every worker has returned; the
\* successes are counted.
PoolReturn ==
    /\ mainst.pc = "pool"
    /\ \A i \in SceneIndexes : scene[i].pc = "returned"
    /\ mainst' = [mainst EXCEPT
            !.pc = "wait",
            !.results = [k \in 1 .. args.num_rules |-> scene[k - 1].result = "True"],
            !.actual = {}]
    /\ UNCHANGED <<xvars, svars, scene, rend>>

\* Lines 31-36: one test of the wait loop.  While the .blend files listed
\* are not exactly the expected ones the directory is listed again (which
\* raises when it does not exist) and the loop sleeps.
WaitPoll ==
    /\ mainst.pc = "wait"
    /\ IF mainst.actual = Expected
       THEN mainst' = [mainst EXCEPT !.pc = "rendering"]
       ELSE IF ~mainst.dir_exists
            THEN mainst' = [mainst EXCEPT !.pc = "crashed"]
            ELSE mainst' = [mainst EXCEPT !.actual = mainst.files, !.tick = 1 - @]
    /\ UNCHANGED <<xvars, svars, scene, rend>>

\* The objects in a scene file left by an earlier run.
StaleObjects == 1

\* str(k): the decimal digits of a scene index.
RECURSIVE Numeral(_)
Numeral(k) == IF k < 10 THEN <<k>> ELSE Append(Numeral(k \div 10), k % 10)

\* The order of Python strings on "scene_<a>.blend" and "scene_<b>.blend":
\* the digits decide at the first place where they differ, and where one
\* numeral ends the "." that follows it is smaller than any digit.
RECURSIVE DigitsBefore(_, _)
DigitsBefore(a, b) ==
    IF a = <<>> THEN b # <<>>
    ELSE IF b = <<>> THEN FALSE
    ELSE IF Head(a) # Head(b) THEN Head(a) < Head(b)
    ELSE DigitsBefore(Tail(a), Tail(b))

NameBefore(a, b) == DigitsBefore(Numeral(a), Numeral(b))

\* sorted(...) of the .blend files of the output directory.
RECURSIVE SortedFiles(_)
SortedFiles(S) ==
    IF S = {} THEN <<>>
    ELSE LET m == CHOOSE x \in S : \A y \in S : y = x \/ NameBefore(x, y)
         IN  <<m>> \o SortedFiles(S \ {m})

\* The rows a writer appends for a scene: one per object of the registry.
RowsOf(registry, scene_name) ==
    [k \in 1 .. Len(registry) |-> [scene_name |-> scene_name, object |-> registry[k].id]]

\* main.main line 69 and run_rendering lines 39-56: ground_truth.csv is
\* opened for writing and gets its header, the .blend files are listed.
RunRendering ==
    /\ mainst.pc = "rendering"
    /\ mainst' = [mainst EXCEPT !.pc = "render_loop", !.dir_exists = TRUE,
                                !.queue = SortedFiles(mainst.files),
                                !.rendered = <<>>, !.rows = <<>>]
    /\ UNCHANGED <<xvars, svars, scene, rend>>

\* run_rendering lines 58-60 and render_batch.render_scene_from_blend: the
\* file is opened, ZendoObject.instances is cleared, the scene is rendered
\* under the name scene_<enumerate index>, and a row is written for every
\* object of ZendoObject.instances.
RenderSceneFromBlend ==
    /\ mainst.pc = "render_loop"
    /\ IF mainst.queue = <<>>
       THEN /\ mainst' = [mainst EXCEPT !.pc = "done"]
            /\ instances' = instances
       ELSE LET cleared == <<>>
                scene_index == Len(mainst.rendered)
            IN  /\ instances' = cleared
                /\ mainst' = [mainst EXCEPT
                        !.queue = Tail(@),
                        !.rendered = Append(@, [file |-> Head(mainst.queue),
                                                scene_name |-> scene_index]),
                        !.rows = @ \o RowsOf(cleared, scene_index)]
    /\ UNCHANGED <<xvars, args, items, pc, exc, grounded_objects, related_objects,
                   current_object, relation, tries, scene, rend>>

(***************************************************************************)
(* render.generate_blender_examples                                        *)
(***************************************************************************)
\* threading_prolog_query: the query runs in a pool of one process.  An
\* answer within the timeout is returned after pool.close() and pool.join();
\* on the timeout the pool is closed, which leaves its process running, and
\* None is returned.
threading_prolog_query(query) ==
    IF query.returns
    THEN [none |-> FALSE, value |-> query.value, worker |-> "joined"]
    ELSE [none |-> TRUE, value |-> <<>>, worker |-> "running"]

ThreadedResults(n) == {threading_prolog_query(query) : query \in EngineCalls(n)}

\* Line 242 with an off-by-one test.
Exhausted_late(j) == j > args.resolve_attempts

\* Line 242: if j >= args.resolve_attempts.
Exhausted(j) == j >= args.resolve_attempts

\* Lines 195-200: the threaded query; None ends the call with failure.
RenderQuery ==
    /\ rend.pc = "query"
    /\ \E scenes \in ThreadedResults(rend.num_examples) :
        IF scenes.none
        THEN rend' = [rend EXCEPT !.pc = "returned", !.result = "False",
                                   !.outcomes = Append(@, "timeout"),
                                   !.worker = scenes.worker]
        ELSE rend' = [rend EXCEPT !.pc = "loop", !.scenes = scenes.value,
                                   !.i = 0, !.j = 0,
                                   !.worker = scenes.worker]
    /\ UNCHANGED <<xvars, svars, scene, mainst>>

\* Lines 201-206 and 246-250: the loop test, then structure = scenes[i].
RenderLoop ==
    /\ rend.pc = "loop"
    /\ IF rend.i < rend.num_examples
       THEN IF rend.i + 1 > Len(rend.scenes)
            THEN rend' = [rend EXCEPT !.pc = "crashed", !.exc = "IndexError"]
            ELSE rend' = [rend EXCEPT !.pc = "try", !.cleanup = {}]
       ELSE rend' = [rend EXCEPT !.pc = "returned", !.result = "True"]
    /\ UNCHANGED <<xvars, svars, scene, mainst>>

\* scene_name = f"{rule_idx}_{i}", with "_n" for an example that breaks the
\* rule (lines 202-204).
SceneName == <<rmain.r, rend.i, rmain.negative>>

\* Lines 218-225: one row per object of the registry, under the scene name;
\* scene tells the finalized scenes apart.
SceneRows(reg) ==
    [k \in 1 .. Len(reg) |->
        [scene_name |-> SceneName, scene |-> rmain.finalized, object |-> reg[k].id]]

\* Lines 208-244: the try block and its handler.  A call that returns is
\* followed by the render, the rows of the scene, the removal of the
\* objects, ZendoObject.instances.clear() and i += 1.  An exception is
\* followed by a new structure from the engine for scenes[i] (the engine is
\* called directly: a query that does not return blocks the handler; no
\* structure: the subscript raises out of the handler), by j += 1 and by
\* the test of j.
RenderTry ==
    /\ rend.pc = "try"
    /\ \E outcome \in TryOutcomes :
        IF outcome = "returned"
        THEN /\ instances' = <<>>
             /\ rmain' = [rmain EXCEPT
                    !.csv = @ \o SceneRows(BuiltRegistry(rend.scenes[rend.i + 1])),
                    !.finalized = @ + 1]
             /\ rend' = [rend EXCEPT
                    !.outcomes = Append(@, "success"),
                    !.cleanup = {"objects_removed", "instances_cleared"},
                    !.i = @ + 1,
                    !.pc = "loop"]
        ELSE /\ instances' = IF outcome = "raised"
                             THEN BuiltRegistry(rend.scenes[rend.i + 1])
                             ELSE instances
             /\ rmain' = rmain
             /\ \E query \in EngineCalls(1) :
                 IF ~query.returns
                 THEN rend' = [rend EXCEPT
                        !.outcomes = Append(@, "exception"),
                        !.pc = "blocked"]
                 ELSE IF query.value = <<>>
                 THEN rend' = [rend EXCEPT
                        !.outcomes = Append(@, "exception"),
                        !.pc = "crashed",
                        !.exc = "IndexError"]
                 ELSE rend' = [rend EXCEPT
                        !.outcomes = Append(@, "exception"),
                        !.scenes[rend.i + 1] = query.value[1],
                        !.j = @ + 1,
                        !.pc = IF Exhausted(rend.j + 1) THEN "returned" ELSE "loop",
                        !.result = IF Exhausted(rend.j + 1) THEN "False" ELSE @]
    /\ UNCHANGED <<call, args, items, pc, exc, grounded_objects, related_objects,
                   current_object, relation, tries, scene, mainst>>

(***************************************************************************)
(* Specifications of the drivers.                                          *)
(***************************************************************************)
IdleStructure ==
    /\ items = <<>>
    /\ pc = "idle"
    /\ exc = "none"
    /\ grounded_objects = <<>>
    /\ related_objects = <<>>
    /\ instances = <<>>
    /\ current_object = None
    /\ relation = [type |-> "none", target |-> None]
    /\ tries = 0

\* main.main: the output directory may be missing, or hold .blend files of
\* an earlier run.
MainInit ==
    /\ args \in {c \in ValidOnly : c.num_examples = 1}
    /\ IdleStructure
    /\ scene = <<>>
    /\ rend = IdleRender
    /\ rmain = IdleRenderMain
    /\ call = IdleCall
    /\ \E exists \in BOOLEAN : \E old \in SUBSET (0 .. MaxScenes) :
        /\ exists \/ old = {}
        /\ mainst = [IdleMain EXCEPT !.pc = "start", !.dir_exists = exists,
                                      !.files = old,
                                      !.saved = [i \in old |-> StaleObjects]]

MainNext ==
    \/ RunGeneration
    \/ \E i \in DOMAIN scene : PipelineOpen(i)
    \/ \E i \in DOMAIN scene : PipelineAttempt(i)
    \/ \E i \in DOMAIN scene : PipelineTry(i)
    \/ PoolReturn
    \/ WaitPoll
    \/ RunRendering
    \/ RenderSceneFromBlend

MainSpec == MainInit /\ [][MainNext]_vars

\* The pool runs every job, and a running function takes its next step.
FairMainSpec == MainSpec /\ WF_vars(MainNext)

\* render.generate_blender_examples, called for one rule.
RenderInit ==
    /\ args \in {c \in ValidOnly : c.num_rules = 1}
    /\ IdleStructure
    /\ scene = <<>>
    /\ mainst = IdleMain
    /\ rend = [IdleRender EXCEPT !.pc = "query", !.num_examples = args.num_examples]
    /\ rmain = IdleRenderMain
    /\ call = IdleCall

RenderNext ==
    \/ RenderQuery
    \/ RenderLoop
    \/ RenderTry

RenderSpec == RenderInit /\ [][RenderNext]_vars

(***************************************************************************)
(* render.main: the loop over the rules.                                   *)
(***************************************************************************)
MaxFailed == 2

\* generate_blender_examples(args, collection, n, r, rule, query, negative)
\* is entered.
EnterExamples(n) == [IdleRender EXCEPT !.pc = "query", !.num_examples = n]

\* Lines 295-303: the loop test; a rule is drawn and the examples that
\* follow it are requested.
RenderMainRule ==
    /\ rmain.pc = "rule"
    /\ IF rmain.r < args.num_rules
       THEN /\ rmain' = [rmain EXCEPT !.pc = "examples", !.negative = FALSE]
            /\ rend' = EnterExamples(args.num_examples)
       ELSE /\ rmain' = [rmain EXCEPT !.pc = "done"]
            /\ rend' = rend
    /\ UNCHANGED <<call, svars, scene, mainst>>

\* Lines 306-333: what follows a call of generate_blender_examples.  After
\* the examples of the rule: on failure failed_attempts += 1 and `continue`
\* with r as it is; on success the examples that break the rule are
\* requested when configured, else r += 1.  After the examples that break
\* the rule: a failure is counted, and r += 1 either way.  An exception out
\* of generate_blender_examples ends main.
RenderMainResult ==
    /\ rmain.pc = "examples"
    /\ rend.pc \in {"returned", "crashed"}
    /\ LET counted == IF rmain.failed_attempts < MaxFailed
                      THEN rmain.failed_attempts + 1
                      ELSE rmain.failed_attempts
       IN  IF rend.pc = "crashed"
           THEN /\ rmain' = [rmain EXCEPT !.pc = "crashed"]
                /\ rend' = rend
           ELSE IF ~rmain.negative
           THEN IF rend.result = "False"
                THEN /\ rmain' = [rmain EXCEPT !.pc = "rule", !.failed_attempts = counted]
                     /\ rend' = rend
                ELSE IF args.generate_invalid_examples
                THEN /\ rmain' = [rmain EXCEPT !.negative = TRUE]
                     /\ rend' = EnterExamples(args.num_invalid_examples)
                ELSE /\ rmain' = [rmain EXCEPT !.pc = "rule", !.r = @ + 1]
                     /\ rend' = rend
           ELSE /\ rmain' = [rmain EXCEPT
                        !.pc = "rule",
                        !.r = @ + 1,
                        !.failed_attempts = IF rend.result = "False" THEN counted ELSE @]
                /\ rend' = rend
    /\ UNCHANGED <<call, svars, scene, mainst>>

RenderMainInit ==
    /\ args \in DriverConfigs
    /\ IdleStructure
    /\ scene = <<>>
    /\ mainst = IdleMain
    /\ rend = IdleRender
    /\ rmain = [IdleRenderMain EXCEPT !.pc = "rule"]
    /\ call = IdleCall

RenderMainNext ==
    \/ RenderMainRule
    \/ RenderQuery
    \/ RenderLoop
    \/ RenderTry
    \/ RenderMainResult

RenderMainSpec == RenderMainInit /\ [][RenderMainNext]_vars

\* main keeps running.
FairRenderMainSpec == RenderMainSpec /\ WF_vars(RenderMainNext)

(***************************************************************************)
(* generate_structure on facts that are not all well formed.               *)
(***************************************************************************)
\* The actions of the grammar: grounded, or relation(target id).
GrammarActions ==
    {Grounded} \cup {[name |-> r, arg |-> <<t>>] : r \in Relations, t \in Digits}

\* A text the pattern does not match ("itm(...)"), a word that is no
\* action ("floating"), and a relation that is none of the three
\* ("beside(0)").
Unmatched(id) == [Fact(id, Grounded) EXCEPT !.head = "itm"]

Floating == [name |-> "floating", arg |-> <<>>]

Beside == [name |-> "beside", arg |-> <<0>>]

RawFacts(id) ==
    {Fact(id, Grounded), Unmatched(id), Fact(id, Floating), Fact(id, Beside)}

RECURSIVE RawAscending(_, _)
RawAscending(S, fact) ==
    IF S = {} THEN <<>>
    ELSE LET m == CHOOSE x \in S : \A y \in S : x <= y
         IN  <<fact[m]>> \o RawAscending(S \ {m}, fact)

RawLists ==
    UNION { {Reverse(RawAscending(S, fact)) :
                fact \in {f \in [S -> UNION {RawFacts(id) : id \in S}] :
                            \A id \in S : f[id] \in RawFacts(id)}}
            : S \in (SUBSET Ids) \ {{}} }

RawInit ==
    /\ args \in Configs
    /\ items \in RawLists
    /\ pc = "parse"
    /\ exc = "none"
    /\ grounded_objects = <<>>
    /\ related_objects = <<>>
    /\ instances = <<>>
    /\ current_object = None
    /\ relation = [type |-> "none", target |-> None]
    /\ tries = 0
    /\ scene = <<>>
    /\ mainst = IdleMain
    /\ rend = IdleRender
    /\ rmain = IdleRenderMain
    /\ call = IdleCall

RawNext ==
    \/ Parse
    \/ PlaceAnchor
    \/ ScatterCreate
    \/ ScatterSample
    \/ RelationCreate
    \/ ResolveUnknown
    \/ PostPass

RawSpec == RawInit /\ [][RawNext]_vars

(***************************************************************************)
(* check_pointing(observer), called on its own.                            *)
(***************************************************************************)
MaxRays == 2
MaxHits == 2
MaxTracked == 3

\* What one ray can hit: tracked objects, and objects of the scene that
\* are no ZendoObject (get_from_blender_obj gives None).
HitLists == UNION {[1 .. n -> 0 .. MaxTracked] : n \in 0 .. MaxHits}

RayLists == UNION {[1 .. n -> HitLists] : n \in 0 .. MaxRays}

CheckPointingInit ==
    /\ args \in {c \in ValidOnly : c.resolve_attempts = 0 /\ c.num_rules = 1
                                    /\ c.num_examples = 0}
    /\ IdleStructure
    /\ scene = <<>>
    /\ mainst = IdleMain
    /\ rend = IdleRender
    /\ rmain = IdleRenderMain
    /\ \E rays \in RayLists : \E observer \in 1 .. MaxTracked :
        call = [fn |-> "check_pointing", rays |-> rays, observer |-> observer,
                results |-> <<>>, returned |-> FALSE]

CheckPointingCall ==
    /\ call.fn = "check_pointing"
    /\ ~call.returned
    /\ call' = [call EXCEPT !.results = check_pointing(call.rays, call.observer),
                            !.returned = TRUE]
    /\ UNCHANGED <<svars, dvars, rmain>>

CheckPointingSpec == CheckPointingInit /\ [][CheckPointingCall]_vars

(***************************************************************************)
(* generate_relation(instruction), called on its own.                      *)
(***************************************************************************)
MaxDigit == 2
MaxDigits == 2

\* The target ids as they are written: strings of decimal digits, without
\* a leading zero.
DigitStrings ==
    {d \in UNION {[1 .. n -> 0 .. MaxDigit] : n \in 1 .. MaxDigits} :
        Len(d) = 1 \/ d[1] # 0}

\* int(text) of a string of decimal digits.
RECURSIVE Value(_)
Value(digits) ==
    IF digits = <<>> THEN 0
    ELSE 10 * Value(SubSeq(digits, 1, Len(digits) - 1)) + digits[Len(digits)]

\* The ids of S in ascending order.
RECURSIVE AscendingIds(_)
AscendingIds(S) ==
    IF S = {} THEN <<>>
    ELSE LET m == CHOOSE x \in S : \A y \in S : x <= y
         IN  <<m>> \o AscendingIds(S \ {m})

\* A registry holding one object for each id of S, in ascending order.
RegistryOf(S) ==
    LET ids == AscendingIds(S)
    IN  [k \in 1 .. Len(ids) |-> NewObject(Fact(ids[k], Grounded))]

GenerateRelationInit ==
    /\ args \in {c \in ValidOnly : c.resolve_attempts = 0 /\ c.num_rules = 1
                                    /\ c.num_examples = 0}
    /\ IdleStructure
    /\ scene = <<>>
    /\ mainst = IdleMain
    /\ rend = IdleRender
    /\ rmain = IdleRenderMain
    /\ \E r \in Relations : \E digits \in DigitStrings :
       \E S \in {S \in SUBSET {Value(d) : d \in DigitStrings} : Cardinality(S) <= 2} :
        call = [fn |-> "generate_relation",
                registry |-> RegistryOf(S),
                instruction |-> Fact(MaxId, [name |-> r, arg |-> digits]),
                result |-> [type |-> "none", target |-> None],
                returned |-> FALSE]

GenerateRelationCall ==
    /\ call.fn = "generate_relation"
    /\ ~call.returned
    /\ call' = [call EXCEPT !.result = generate_relation(call.registry, call.instruction),
                            !.returned = TRUE]
    /\ UNCHANGED <<svars, dvars, rmain>>

GenerateRelationSpec == GenerateRelationInit /\ [][GenerateRelationCall]_vars

(***************************************************************************)
(* Properties of generate_structure.                                       *)
(***************************************************************************)
\* The facts whose action is the literal `grounded`, and the others.
GroundedIds == {items[k].id : k \in {k \in 1 .. Len(items) : items[k].action = Grounded}}

RelationalIds == {items[k].id : k \in {k \in 1 .. Len(items) : items[k].action # Grounded}}

\* The objects whose placement has been accepted: every registered object
\* but the one a loop is still placing (or was placing when it raised).
Placed ==
    Handles(instances) \ (IF pc \in {"sample", "resolve", "raised"}
                          THEN {current_object} ELSE {})

Joined(a, b) ==
    \/ \E f \in Faces : instances[a].touching[f] = b
    \/ \E f \in Faces : instances[b].touching[f] = a

\* C1: from the moment the anchor is placed until generate_structure ends,
\* the first registered object is the one made from the lowest-id grounded
\* instruction, it is the only object of that id, and it sits exactly at
\* anchor_position: no later step (scattering, touching, pointing, the
\* post-pass) moves it.  When generate_structure ends, that object exists.
AnchorStaysAtAnchorPosition ==
    /\ instances # <<>> =>
          /\ GroundedIds # {}
          /\ \A id \in GroundedIds : instances[1].id <= id
          /\ instances[1].id \in GroundedIds
          /\ instances[1].pos = anchor_position
          /\ \A h \in Handles(instances) : instances[h].id = instances[1].id => h = 1
    /\ pc = "done" => instances # <<>>

\* A finished run with three objects, one of them scattered and one placed
\* by a relation.
AnchorWitness ==
    /\ pc = "done"
    /\ Len(instances) = 3
    /\ Cardinality(GroundedIds) = 2
    /\ instances[1].pos = anchor_position
    /\ instances[2].pos # anchor_position

\* C2: after every accepted placement (anchor, scattered, touching,
\* pointing) and at the end of generate_structure, two distinct placed
\* objects have overlapping world AABBs only if a touching relation was
\* recorded between them.
NoOverlapBesidesTouching ==
    \A a \in Placed : \A b \in Placed :
        (a # b /\ Overlap(instances[a], instances[b])) => Joined(a, b)

\* A finished run with three placed objects, two of them joined by a
\* touching relation and sharing a face.
NoOverlapWitness ==
    /\ pc = "done"
    /\ Len(instances) = 3
    /\ \E a \in Placed : \E b \in Placed :
          a # b /\ Joined(a, b) /\ Overlap(instances[a], instances[b])
    /\ \E a \in Placed : \E b \in Placed :
          a # b /\ ~Overlap(instances[a], instances[b])

\* A step that resolves a touching relation.
TouchingResolved ==
    /\ pc = "resolve"
    /\ relation.type = "touching"
    /\ pc' = "relation"

\* C3: every step that resolves a touching relation records the adjacency
\* on both objects: the target gets the new object on a face that was free,
\* the new object gets the target on the face of face_map with the same axis
\* and the negated direction, and the new object then overlaps no registered
\* object other than the target.
TouchingRecordedOnBoth ==
    [][TouchingResolved =>
        /\ \E f \in Faces : \E g \in Faces :
              /\ instances[relation.target].touching[f] = None
              /\ instances'[relation.target].touching[f] = current_object
              /\ face_map[g][1] = face_map[f][1]
              /\ face_map[g][2] = 0 - face_map[f][2]
              /\ instances'[current_object].touching[g] = relation.target
        /\ \A h \in Handles(instances') :
              (h # current_object /\ h # relation.target)
                  => ~Overlap(instances'[current_object], instances'[h])
    ]_vars

\* A finished run of three objects in which an object touches a target
\* other than itself.
TouchingWitness ==
    /\ pc = "done"
    /\ Len(instances) = 3
    /\ \E t \in Handles(instances) : \E f \in Faces :
          instances[t].touching[f] # None /\ instances[t].touching[f] # t

\* C4: objects are created for the grounded instructions in ascending id
\* order, then for the relational instructions in ascending id order, and
\* the post-pass is reached only when every instruction has its object and
\* none is still being placed.
GroundedThenRelationalAscending ==
    /\ \A h \in Handles(instances) : \A g \in Handles(instances) :
          h < g =>
            \/ instances[h].id \in GroundedIds /\ instances[g].id \in RelationalIds
            \/ /\ instances[h].id \in GroundedIds <=> instances[g].id \in GroundedIds
               /\ instances[h].id < instances[g].id
    /\ pc \in {"post", "done"} =>
          /\ Len(instances) = Len(items)
          /\ grounded_objects = <<>>
          /\ related_objects = <<>>

\* A finished run with one grounded and two relational instructions.
OrderWitness ==
    /\ pc = "done"
    /\ Len(instances) = 3
    /\ Cardinality(RelationalIds) = 2


(***************************************************************************)
(* Termination of the placement loops.                                     *)
(***************************************************************************)
\* The structures with grounded instructions only.
GroundedLists == {f \in FactLists : \A k \in 1 .. Len(f) : f[k].action = Grounded}

ScatterInit ==
    /\ Init
    /\ items \in GroundedLists

ScatterNext ==
    \/ Parse
    \/ PlaceAnchor
    \/ ScatterCreate
    \/ ScatterSample
    \/ RelationCreate
    \/ PostPass

\* The function keeps running, and a sampling loop that can draw a free
\* position again and again does draw one.
ScatterSpec ==
    /\ ScatterInit
    /\ [][ScatterNext]_vars
    /\ WF_vars(ScatterNext)
    /\ SF_vars(ScatterSample /\ pc' = "scatter")

OnTopOfIsSkipped ==
    [][(pc = "resolve" /\ relation.type = "on_top_of")
            => (pc' = "relation" /\ instances' = instances)]_vars

(***************************************************************************)
(* Properties of the callers.                                              *)
(***************************************************************************)
Failures == {"no_structure", "exception"}

\* C7: when the call of generate_structure in render.generate_blender_examples
\* has raised, then before the next attempt starts (or the function
\* returns) the handler has removed the objects created so far, has cleared
\* ZendoObject.instances and has counted the failure.
RenderHandlerCleansUp ==
    (/\ rend.pc \in {"loop", "returned"}
     /\ rend.outcomes # <<>>
     /\ Last(rend.outcomes) = "exception")
        => /\ {"objects_removed", "instances_cleared"} \subseteq rend.cleanup
           /\ rend.j >= 1

\* C8: generate_full_scene makes at most resolve_attempts attempts, makes
\* none after a successful one, returns True exactly when the last attempt
\* succeeded, returns False exactly when it has returned after
\* resolve_attempts attempts that all failed, and returns nothing else.
GenerateFullSceneContract ==
    \A i \in DOMAIN scene :
        LET s == scene[i]
            n == Len(s.outcomes)
        IN  /\ n <= args.resolve_attempts
            /\ s.attempt <= args.resolve_attempts
            /\ \A k \in 1 .. (n - 1) : s.outcomes[k] \in Failures
            /\ (s.result = "True") <=> (n > 0 /\ s.outcomes[n] = "success")
            /\ (s.result = "False") <=>
                    /\ s.pc = "returned"
                    /\ n = args.resolve_attempts
                    /\ \A k \in 1 .. n : s.outcomes[k] \in Failures
            /\ (s.pc = "returned") <=> (s.result \in {"True", "False"})

\* A scene has returned False after an attempt without a structure and an
\* attempt that raised.
GenerateFullSceneWitness ==
    \E i \in DOMAIN scene :
        /\ scene[i].result = "False"
        /\ \E k \in 1 .. Len(scene[i].outcomes) : scene[i].outcomes[k] = "no_structure"
        /\ \E k \in 1 .. Len(scene[i].outcomes) : scene[i].outcomes[k] = "exception"

\* C9: generate_blender_examples returns failure only after
\* resolve_attempts failed structure attempts in a row, and a successful
\* example leaves the failure count at zero.
FailureOnlyAfterConsecutiveFailures ==
    LET n == Len(rend.outcomes)
        ra == args.resolve_attempts
    IN  /\ (rend.result = "False") =>
                /\ n >= ra
                /\ \A k \in (n - ra + 1) .. n : rend.outcomes[k] = "exception"
        /\ (n > 0 /\ rend.outcomes[n] = "success") => rend.j = 0

\* C10: when a worker has returned False (and the output directory exists),
\* run_generation still ends and main goes on to run_rendering.
FailedSceneNotFatal ==
    (/\ mainst.pc = "wait"
     /\ mainst.dir_exists
     /\ \E k \in DOMAIN mainst.results : ~mainst.results[k])
        ~> (mainst.pc = "done")


\* C11: when threading_prolog_query has returned None on the timeout, the
\* process it started for the query has been terminated.
TimedOutQueryIsTerminated ==
    (/\ rend.pc = "returned"
     /\ rend.outcomes # <<>>
     /\ Last(rend.outcomes) = "timeout")
        => rend.worker = "terminated"

\* C12: every call of the logic engine runs under the timeout: no worker
\* and no exception handler is ever blocked in a query that does not return.
NoEngineCallBlocks ==
    /\ \A i \in DOMAIN scene : scene[i].pc # "blocked"
    /\ rend.pc # "blocked"


\* C13: the loop over the rules in render.main ends, with every rule done
\* or with an exception out of generate_blender_examples, unless a query
\* blocks: a rule slot whose examples keep failing is given up.
RuleLoopEnds ==
    <>(rmain.pc \in {"done", "crashed"} \/ rend.pc = "blocked")


\* The pointing instructions of the structure, as (observer, target) handles.
PointingPairs ==
    {<<get_object(instances, items[k].id), get_object(instances, items[k].action.arg[1])>> :
        k \in {k \in 1 .. Len(items) : items[k].action.name = "pointing"}}

\* C14: when generate_structure has finished, every requested pointing
\* relation (of an observer at another object) holds in the scene: the
\* first object the observer's ray meets is the target.
PointingHoldsAtTheEnd ==
    (pc = "done") =>
        \A pair \in PointingPairs :
            LET seen == check_pointing(<<RayHits(instances, pair[1], pair[2])>>, pair[1])
            IN  pair[1] # pair[2] => (seen # <<>> /\ seen[1] = pair[2])


\* All hits of all rays, in the order check_pointing meets them.
RECURSIVE Flat(_)
Flat(rays) == IF rays = <<>> THEN <<>> ELSE Head(rays) \o Flat(Tail(rays))

FirstIndex(seq, x) == CHOOSE k \in 1 .. Len(seq) : seq[k] = x /\ \A m \in 1 .. (k - 1) : seq[m] # x

\* C15: the list check_pointing returns never holds the observer, holds no
\* object twice, holds every other tracked object that some ray hit, and
\* holds them in the order of their first hit.
CheckPointingDistinctInOrder ==
    (call.fn = "check_pointing" /\ call.returned) =>
        LET res == call.results
            flat == Flat(call.rays)
        IN  /\ \A k \in 1 .. Len(res) : res[k] # call.observer /\ res[k] # None
            /\ \A a, b \in 1 .. Len(res) : a # b => res[a] # res[b]
            /\ {res[k] : k \in 1 .. Len(res)}
                    = {flat[k] : k \in 1 .. Len(flat)} \ {None, call.observer}
            /\ \A a, b \in 1 .. Len(res) :
                    a < b => FirstIndex(flat, res[a]) < FirstIndex(flat, res[b])

\* check_pointing has returned two objects where two rays hit the same
\* object and a ray hit the observer.
CheckPointingWitness ==
    /\ call.fn = "check_pointing"
    /\ call.returned
    /\ Len(call.results) = 2
    /\ Len(call.rays) = 2
    /\ \E a \in 1 .. Len(call.rays[1]) : \E b \in 1 .. Len(call.rays[2]) :
            /\ call.rays[1][a] = call.rays[2][b]
            /\ call.rays[1][a] \notin {None, call.observer}
    /\ \E k \in 1 .. Len(Flat(call.rays)) : Flat(call.rays)[k] = call.observer


\* C16: whenever a relational instruction is being resolved, its target is
\* registered, is not the object being placed, and was registered before it.
TargetRealizedEarlier ==
    (pc = "resolve") =>
        /\ relation.target # None
        /\ relation.target # current_object
        /\ relation.target < current_object


\* The ids of the facts of the structure that are items with an action of
\* the grammar.
WellFormedIds ==
    {items[k].id : k \in {k \in 1 .. Len(items) :
                            Matches(items[k]) /\ items[k].action \in GrammarActions}}

\* C17: a fact outside the grammar is rejected at parsing: no instruction
\* and no object is made of it, and it raises no error (here: in a
\* structure that has a well-formed grounded fact).
MalformedFactsRejected ==
    /\ \A k \in 1 .. Len(grounded_objects) : grounded_objects[k].id \in WellFormedIds
    /\ \A k \in 1 .. Len(related_objects) : related_objects[k].id \in WellFormedIds
    /\ \A h \in 1 .. Len(instances) : instances[h].id \in WellFormedIds
    /\ (\E k \in 1 .. Len(items) : Matches(items[k]) /\ items[k].action = Grounded)
            => pc # "raised"


\* C18: every scene rendered by render_batch.render_scene_from_blend has
\* exactly one ground-truth row per object of the scene file.
OneRowPerObject ==
    \A k \in 1 .. Len(mainst.rendered) :
        LET done == mainst.rendered[k]
        IN  Cardinality({n \in 1 .. Len(mainst.rows) :
                            mainst.rows[n].scene_name = done.scene_name})
                = mainst.saved[done.file]


InSeq(x, seq) == \E k \in 1 .. Len(seq) : seq[k] = x

\* C19: for any two distinct registered objects a and b, and no object
\* exempted, b is in check_collision(a) exactly when a is in
\* check_collision(b).
CollisionIsSymmetric ==
    \A a, b \in Handles(instances) :
        a # b => (InSeq(b, check_collision(instances, a, None))
                    <=> InSeq(a, check_collision(instances, b, None)))

\* Two registered objects overlap, and two are apart.
CollisionWitness ==
    /\ \E a, b \in Handles(instances) :
            a # b /\ InSeq(b, check_collision(instances, a, None))
    /\ \E a, b \in Handles(instances) :
            a # b /\ ~InSeq(b, check_collision(instances, a, None))


\* C20: generate_relation resolves the target of relation(t) to the object
\* whose id is t, whatever the number of digits of t.
TargetIsTheNamedObject ==
    (call.fn = "generate_relation" /\ call.returned) =>
        /\ call.result.type = call.instruction.action.name
        /\ call.result.target
                = get_object(call.registry, Value(call.instruction.action.arg))


\* Do the closed intervals [lo1, hi1] and [lo2, hi2] share a point?
IntervalsMeet(lo1, hi1, lo2, hi2) == ~(hi1 < lo2 \/ hi2 < lo1)

\* The world AABBs of a and b share a point on each of the three axes.
BoxesMeet(a, b) ==
    \A axis \in 1 .. 3 :
        IntervalsMeet(bb_min(a)[axis], bb_max(a)[axis], bb_min(b)[axis], bb_max(b)[axis])

\* C21: for every registered object o and every omitted object (or none),
\* check_collision(o, omit) lists, in registry order and once each, exactly
\* the registered objects other than o and omit whose world AABB meets o's
\* on all three axes, bounds included.
CheckCollisionExact ==
    \A h \in Handles(instances) : \A omit \in Handles(instances) \cup {None} :
        LET res == check_collision(instances, h, omit)
        IN  /\ \A k \in 1 .. (Len(res) - 1) : res[k] < res[k + 1]
            /\ {res[k] : k \in 1 .. Len(res)}
                    = {g \in Handles(instances) :
                            g # h /\ g # omit /\ BoxesMeet(instances[h], instances[g])}

\* Two boxes that share only a face are reported as colliding, and are not
\* reported when one of them is omitted.
CheckCollisionWitness ==
    \E h, g \in Handles(instances) :
        /\ h # g
        /\ bb_max(instances[h])[1] = bb_min(instances[g])[1]
        /\ InSeq(g, check_collision(instances, h, None))
        /\ ~InSeq(g, check_collision(instances, h, g))


TouchLists ==
    {f \in FactLists :
        \A k \in 1 .. Len(f) : f[k].action.name \in {"grounded", "touching"}}

TouchInit ==
    /\ Init
    /\ items \in TouchLists

TouchNext ==
    \/ Parse
    \/ PlaceAnchor
    \/ ScatterCreate
    \/ ScatterSample
    \/ RelationCreate
    \/ ResolveTouching
    \/ PostPass

\* The function keeps running, and a retry loop that can accept again and
\* again eventually does: random.choice is fair.
TouchSpec ==
    /\ TouchInit
    /\ [][TouchNext]_vars
    /\ WF_vars(TouchNext)
    /\ SF_vars(ResolveTouching /\ pc' = "relation")

\* The current object, turned n quarter turns and laid flush at this face of
\* the target, collides with nothing but the target.
FitsAt(face, n) ==
    LET turned == [instances EXCEPT ![current_object] = rotate_z(@, n)]
        reg == [turned EXCEPT ![current_object] =
                    move(@, FlushPosition(turned[current_object],
                                          turned[relation.target], face))]
    IN  check_collision(reg, current_object, relation.target) = <<>>

\* The target has a free face at which the current object fits.
PlacementExists ==
    LET faces == free_faces(instances[relation.target])
    IN  \E k \in 1 .. Len(faces) : \E n \in 0 .. 3 : FitsAt(faces[k], n)

\* The retry loop is at its head for a touching relation to another object.
InTouchingLoop ==
    /\ pc = "resolve"
    /\ relation.type = "touching"
    /\ relation.target # None
    /\ relation.target # current_object

\* C23: whenever the touching retry loop runs for a target that has a free
\* face at which the new object collides with nothing but the target, the
\* loop eventually accepts a placement, with either face policy.
TouchingLoopEnds ==
    (InTouchingLoop /\ PlacementExists) ~> (pc # "resolve")

(***************************************************************************)
(* One target and up to five objects that touch it.                        *)
(***************************************************************************)
\* The ids of the crowd: a wedge, whose four faces take four neighbours that
\* do not collide with each other, and five objects of a square footprint.
Crowd == <<1, 2, 3, 5, 6, 8>>

CrowdAnchor == Head(Crowd)

\* The ids of the objects that touch the anchor.
CrowdIds == Tail(Crowd)

\* The fact lists: the anchor and the first n touching objects, in the
\* descending id order of FactLists.
CrowdLists ==
    {Reverse(<<Fact(CrowdAnchor, Grounded)>>
             \o [k \in 1 .. n |->
                    Fact(CrowdIds[k], [name |-> "touching", arg |-> <<CrowdAnchor>>])])
        : n \in 0 .. Len(CrowdIds)}

CrowdInit ==
    /\ args \in Configs
    /\ items \in CrowdLists
    /\ pc = "parse"
    /\ exc = "none"
    /\ grounded_objects = <<>>
    /\ related_objects = <<>>
    /\ instances = <<>>
    /\ current_object = None
    /\ relation = [type |-> "none", target |-> None]
    /\ tries = 0
    /\ scene = <<>>
    /\ mainst = IdleMain
    /\ rend = IdleRender
    /\ rmain = IdleRenderMain
    /\ call = IdleCall

CrowdNext ==
    \/ Parse
    \/ PlaceAnchor
    \/ ScatterCreate
    \/ RelationCreate
    \/ ResolveTouching
    \/ PostPass

CrowdSpec == CrowdInit /\ [][CrowdNext]_vars

\* The target of the touching relation in hand has no free face.
TargetIsFull ==
    /\ pc = "resolve"
    /\ relation.type = "touching"
    /\ relation.target # None
    /\ free_faces(instances[relation.target]) = <<>>

\* C24: a face holds at most one neighbour: no step of the function changes
\* a face that already holds a neighbour, and the iteration for a target
\* without a free face raises an error and records nothing.
FacesKeepTheirNeighbour ==
    [][/\ \A h \in Handles(instances) : \A f \in Faces :
            instances[h].touching[f] # None
                => /\ h \in Handles(instances')
                   /\ instances'[h].touching[f] = instances[h].touching[f]
       /\ TargetIsFull
            => /\ pc' = "raised"
               /\ exc' = "IndexError"
               /\ instances' = instances]_vars

\* The fifth object found no free face on a target whose four faces hold
\* four different neighbours.
FullTargetWitness ==
    /\ pc = "raised"
    /\ exc = "IndexError"
    /\ \E h \in Handles(instances) :
        /\ free_faces(instances[h]) = <<>>
        /\ Cardinality({instances[h].touching[f] : f \in Faces}) = 4

\* C25: in ground_truth.csv the rows of one scene name come from one
\* finalized scene: no two rows share a scene name and differ in the scene
\* that wrote them.
OneSceneForEachName ==
    \A a, b \in 1 .. Len(rmain.csv) :
        rmain.csv[a].scene_name = rmain.csv[b].scene_name
            => rmain.csv[a].scene = rmain.csv[b].scene

(***************************************************************************)
(* render_batch.main: the scene files of a directory are rendered.         *)
(***************************************************************************)
MaxFileIndex == 10

MaxFiles == 2

\* The directories: up to MaxFiles scene files, left there by runs of the
\* generation in which other scenes may have failed.
BatchDirectories ==
    {S \in SUBSET (0 .. MaxFileIndex) : Cardinality(S) <= MaxFiles}

BatchInit ==
    /\ args \in {c \in ValidOnly : c.resolve_attempts = 0 /\ c.num_rules = 1
                                    /\ c.num_examples = 0}
    /\ IdleStructure
    /\ scene = <<>>
    /\ rend = IdleRender
    /\ rmain = IdleRenderMain
    /\ call = IdleCall
    /\ \E exists \in BOOLEAN : \E old \in BatchDirectories :
        /\ exists \/ old = {}
        /\ mainst = [IdleMain EXCEPT !.pc = "batch", !.dir_exists = exists,
                                      !.files = old,
                                      !.saved = [i \in old |-> StaleObjects]]

\* render_batch.main: the directory is made when missing, ground_truth.csv
\* is opened for writing and gets its header, the .blend files are listed.
RenderBatchMain ==
    /\ mainst.pc = "batch"
    /\ mainst' = [mainst EXCEPT !.pc = "render_loop", !.dir_exists = TRUE,
                                !.queue = SortedFiles(mainst.files),
                                !.rendered = <<>>, !.rows = <<>>]
    /\ UNCHANGED <<xvars, svars, scene, rend>>

BatchNext ==
    \/ RenderBatchMain
    \/ RenderSceneFromBlend

BatchSpec == BatchInit /\ [][BatchNext]_vars

\* C26: every scene file that was rendered got its own name: the scene name
\* (and with it the image path) written for scene_<k>.blend is scene_<k>.
SceneKeepsItsName ==
    \A k \in 1 .. Len(mainst.rendered) :
        mainst.rendered[k].scene_name = mainst.rendered[k].file

\* C27: no call of generate_structure made by generate_full_scene fails on
\* the call itself: an attempt that has a structure from the engine is not
\* discarded before the function has placed anything.
CallEntersTheFunction ==
    \A i \in DOMAIN scene : scene[i].exc # "TypeError"

====
